---- MODULE Spec2Model ----
(***************************************************************************)
(* Model of src/script.py: the NASDAQ moving-average pipeline              *)
(* (read_nasdaq_data, filter_by_ticker, calculate_moving_average,          *)
(* generate_html_report, main).                                            *)
(*                                                                         *)
(* A DataFrame is a sequence of rows; a row is a record that carries its   *)
(* pandas index label (idx) and one field per column.  Two specifications: *)
(*   Spec    one run of main() over a fetched response;                    *)
(*   SpecMA  calculate_moving_average applied to bounded inputs.           *)
(***************************************************************************)
EXTENDS Integers, Sequences, FiniteSets, TLC

VARIABLES
    response,           \* outcome of requests.get: [ok, lines] (lines after the header)
    file,               \* content of REPORT_FILENAME on disk
    pc,                 \* position of main()
    full_df,            \* main: full_df
    handler,            \* except clause of read_nasdaq_data that ran
    available_tickers,  \* main: available_tickers
    processed_dfs,      \* main: processed_dfs
    report_df,          \* main: report_df
    plots,              \* generate_html_report: plots (insertion-ordered dict)
    html_template,      \* generate_html_report: the assembled document
    i,                  \* index of the running for loop
    exc,                \* exception that escaped to the interpreter
    stdout,             \* what print() wrote
    df,                 \* calculate_moving_average: argument df
    window,             \* calculate_moving_average: argument window
    df_sorted,          \* calculate_moving_average: returned frame
    ma_pc               \* position of the calculate_moving_average call

pipeline_vars == <<response, file, pc, full_df, handler, available_tickers,
                   processed_dfs, report_df, plots, html_template, i, exc, stdout>>
ma_vars == <<df, window, df_sorted, ma_pc>>
vars == <<response, file, pc, full_df, handler, available_tickers,
          processed_dfs, report_df, plots, html_template, i, exc, stdout,
          df, window, df_sorted, ma_pc>>

----------------------------------------------------------------------------
(* Bounds of the model *)

MaxLines == 3      \* data lines in a response body
MaxLen == 3        \* rows of a frame given to calculate_moving_average
MaxWindow == 4     \* largest window tried besides MOVING_AVERAGE_WINDOW

----------------------------------------------------------------------------
(* Constants of the program *)

COLUMN_NAMES == <<"ticker", "per", "date", "open", "high", "low", "close", "vol">>
REPORT_FILENAME == "nasdaq_moving_average_report.html"
TICKERS_TO_ANALYZE == <<"AAPL", "GOOG", "MSFT", "AMZN">>
MOVING_AVERAGE_WINDOW == 30

\* Missing markers: a missing cell of read_csv, NaN of to_numeric, NaT of to_datetime.
NA == "<NA>"
NaN == -1
NaT == -1

Max(a, b) == IF a >= b THEN a ELSE b

BoundedSeq(S, n) == UNION {[1..k -> S] : k \in 0..n}

----------------------------------------------------------------------------
(* calculate_moving_average *)

\* A float that is either NaN or the quotient num/den.
NaNMean == [isnan |-> TRUE, num |-> 0, den |-> 1]
Mean(sum, nobs) == [isnan |-> FALSE, num |-> sum, den |-> nobs]

\* DataFrame.sort_values(by='date') with the default kind='quicksort': the
\* result is ascending by date; the order of rows with equal dates is not
\* specified.  Each possible result is given as a sequence of positions of
\* the input: a row goes after every row of a smaller date, at the rank the
\* sort happens to give it among the rows of its own date.
SameDate(dates, k) == {j \in DOMAIN dates : dates[j] = dates[k]}

Tied(dates) == {k \in DOMAIN dates : SameDate(dates, k) # {k}}

TieRanks(dates) ==
    {r \in [Tied(dates) -> 1..Cardinality(Tied(dates))] :
        \A k \in Tied(dates) :
            /\ r[k] <= Cardinality(SameDate(dates, k))
            /\ \A j \in SameDate(dates, k) : j # k => r[j] # r[k]}

SortedPosition(dates, r, k) ==
    Cardinality({j \in DOMAIN dates : dates[j] < dates[k]})
        + (IF k \in DOMAIN r THEN r[k] ELSE 1)

sort_values(frame) ==
    LET dates == [k \in 1..Len(frame) |-> frame[k].date]
    IN  {[p \in 1..Len(frame) |->
             CHOOSE k \in 1..Len(frame) : SortedPosition(dates, r, k) = p]
         : r \in TieRanks(dates)}

\* Series.rolling(window): min_periods defaults to the window size.
MinPeriodsOne(w) == 1

min_periods(w) == w

\* The sliding window of rolling().mean(): a value that is not NaN adds to
\* the sum and to the count of observations when it enters the window at
\* position k (1-based), and is removed from both when it leaves it.
Entering(closes, k) == IF closes[k] # NaN THEN closes[k] ELSE 0

EnteringObs(closes, k) == IF closes[k] # NaN THEN 1 ELSE 0

LeavingNever(closes, w, k) == 0

Leaving(closes, w, k) == IF k > w /\ closes[k - w] # NaN THEN closes[k - w] ELSE 0

LeavingObs(closes, w, k) == IF k > w /\ closes[k - w] # NaN THEN 1 ELSE 0

RECURSIVE RollSum(_, _, _)
RollSum(closes, w, k) ==
    IF k = 0 THEN 0
    ELSE RollSum(closes, w, k - 1) + Entering(closes, k) - Leaving(closes, w, k)

RECURSIVE RollObs(_, _, _)
RollObs(closes, w, k) ==
    IF k = 0 THEN 0
    ELSE RollObs(closes, w, k - 1) + EnteringObs(closes, k) - LeavingObs(closes, w, k)

\* Series.rolling(window=w).mean() at position k.
rolling_mean(closes, w, k) ==
    IF RollObs(closes, w, k) >= min_periods(w)
    THEN Mean(RollSum(closes, w, k), RollObs(closes, w, k))
    ELSE NaNMean

WithMA(row, ma) ==
    [idx |-> row.idx, ticker |-> row.ticker, per |-> row.per, date |-> row.date,
     open |-> row.open, high |-> row.high, low |-> row.low, close |-> row.close,
     vol |-> row.vol, MA |-> ma]

\* The frame calculate_moving_average returns when sort_values yields `order`.
calculate_moving_average(frame, w, order) ==
    LET sorted == [k \in 1..Len(frame) |-> frame[order[k]]]
        closes == [k \in 1..Len(frame) |-> sorted[k].close]
    IN  [k \in 1..Len(frame) |-> WithMA(sorted[k], rolling_mean(closes, w, k))]

----------------------------------------------------------------------------
(* read_nasdaq_data *)

\* Data lines a response body is made of: each is the list of its
\* comma-separated fields.
GoodAAPL1 == <<"AAPL", "1", "201004010930", "10", "10", "10", "10", "100">>
GoodAAPL2 == <<"AAPL", "1", "201004010930", "20", "20", "20", "20", "100">>
GoodMSFT  == <<"MSFT", "1", "201004010931", "30", "30", "30", "30", "100">>
GoodZZZZ  == <<"ZZZZ", "1", "201004010930", "10", "10", "10", "10", "100">>
BadClose  == <<"AAPL", "1", "201004010931", "10", "10", "10", "abc", "100">>
NoTicker  == <<"", "1", "201004010931", "10", "10", "10", "10", "100">>
NoPeriod  == <<"AAPL", "", "201004010931", "10", "10", "10", "10", "100">>
BadDate   == <<"AAPL", "1", "2010-04-01 09:30", "10", "10", "10", "10", "100">>
ShortLine == <<"AAPL", "1", "201004010931", "10", "10", "10", "10">>
LongLine  == <<"AAPL", "1", "201004010931", "10", "10", "10", "10", "100", "0">>

RawLines == {GoodAAPL1, GoodAAPL2, GoodMSFT, GoodZZZZ, BadClose, NoTicker,
             NoPeriod, BadDate, ShortLine, LongLine}

\* Strings read_csv reads as a missing value (its default na_values).
na_values == {"", "NA", "N/A", "NULL", "NaN", "nan", "null", "<NA>"}

\* strptime under '%Y%m%d%H%M', as minutes since midnight of 2010-04-01.
strptime == ("201004010930" :> 570) @@ ("201004010931" :> 571)

\* Parse of a decimal literal.
float == ("10" :> 10) @@ ("20" :> 20) @@ ("30" :> 30) @@ ("100" :> 100) @@ ("0" :> 0)

\* read_csv tokenizer: a line with more fields than names is an error.
ParserError(lines) == \E k \in DOMAIN lines : Len(lines[k]) > Len(COLUMN_NAMES)

\* read_csv: a missing trailing field is filled with a missing value.
Cell(line, j) ==
    IF j > Len(line) \/ line[j] \in na_values THEN NA ELSE line[j]

\* pd.read_csv(data_io, header=None, names=COLUMN_NAMES, skiprows=1): the
\* index is the RangeIndex of the data lines.
read_csv(lines) ==
    [k \in 1..Len(lines) |->
        [idx |-> k - 1, ticker |-> Cell(lines[k], 1), per |-> Cell(lines[k], 2),
         date |-> Cell(lines[k], 3), open |-> Cell(lines[k], 4),
         high |-> Cell(lines[k], 5), low |-> Cell(lines[k], 6),
         close |-> Cell(lines[k], 7), vol |-> Cell(lines[k], 8)]]

DateErrorCoerced(frame) == FALSE

\* pd.to_datetime(df['date'], format='%Y%m%d%H%M') raises on a value that
\* is present and does not match the format.
DateError(frame) ==
    \E k \in DOMAIN frame : frame[k].date # NA /\ frame[k].date \notin DOMAIN strptime

\* A value to_datetime does not raise on: a missing one becomes NaT.
to_datetime(s) == IF s \in DOMAIN strptime THEN strptime[s] ELSE NaT

\* pd.to_numeric(df[col], errors='coerce')
to_numeric(s) == IF s \in DOMAIN float THEN float[s] ELSE NaN

Convert(row) ==
    [idx |-> row.idx, ticker |-> row.ticker, per |-> row.per,
     date |-> to_datetime(row.date), open |-> to_numeric(row.open),
     high |-> to_numeric(row.high), low |-> to_numeric(row.low),
     close |-> to_numeric(row.close), vol |-> to_numeric(row.vol)]

NumericOk(row) ==
    /\ row.open # NaN /\ row.high # NaN /\ row.low # NaN
    /\ row.close # NaN /\ row.vol # NaN

Complete(row) ==
    /\ row.ticker # NA /\ row.per # NA /\ row.date # NaT
    /\ NumericOk(row)

\* df.dropna(inplace=True): drops a row with a missing value in any column.
dropna(frame) == SelectSeq(frame, Complete)

\* The value read_nasdaq_data returns, the except clause that ran and what
\* it printed.  Both except clauses fall through to `return pd.DataFrame()`.
read_nasdaq_data(resp) ==
    IF ~resp.ok
    THEN [df |-> <<>>, handler |-> "RequestException",
          out |-> <<"Error fetching data from URL">>]
    ELSE IF ParserError(resp.lines) \/ DateError(read_csv(resp.lines))
    THEN [df |-> <<>>, handler |-> "Exception",
          out |-> <<"An error occurred while processing the data">>]
    ELSE LET typed == [k \in 1..Len(resp.lines) |-> Convert(read_csv(resp.lines)[k])]
         IN  [df |-> dropna(typed), handler |-> "none",
              out |-> <<"Successfully read and processed records">>]

----------------------------------------------------------------------------
(* filter_by_ticker and the ticker selection of main *)

filter_by_ticker(frame, ticker) == SelectSeq(frame, LAMBDA row : row.ticker = ticker)

unique(frame) == {frame[k].ticker : k \in DOMAIN frame}

Reverse(s) == [k \in 1..Len(s) |-> s[Len(s) + 1 - k]]

AllRequested(frame) == TICKERS_TO_ANALYZE

ReverseAvailable(frame) ==
    Reverse(SelectSeq(TICKERS_TO_ANALYZE, LAMBDA t : t \in unique(frame)))

\* [t for t in TICKERS_TO_ANALYZE if t in full_df['ticker'].unique()]
AvailableTickers(frame) ==
    SelectSeq(TICKERS_TO_ANALYZE, LAMBDA t : t \in unique(frame))

\* pd.concat(processed_dfs)
ConcatLast(frames) == IF frames = <<>> THEN <<>> ELSE frames[Len(frames)]

RECURSIVE concat(_)
concat(frames) ==
    IF frames = <<>> THEN <<>> ELSE Head(frames) \o concat(Tail(frames))

----------------------------------------------------------------------------
(* generate_html_report *)

NoDocument == [tickers |-> <<>>, window |-> 0, sections |-> <<>>, table |-> <<>>]

\* plots[ticker] = ...: a dict keeps the position of a key it already holds.
DictSet(d, key, value) ==
    IF \E k \in DOMAIN d : d[k].ticker = key
    THEN [k \in DOMAIN d |-> IF d[k].ticker = key THEN [ticker |-> key, img |-> value]
                                                  ELSE d[k]]
    ELSE Append(d, [ticker |-> key, img |-> value])

\* The f-string of the template: the summary's ticker list and window, one
\* plot section per item of plots, then the table of report_df.
HtmlTemplate(frame, tickers, w, plotdict) ==
    [tickers |-> tickers, window |-> w, sections |-> plotdict, table |-> frame]

----------------------------------------------------------------------------
(* One run of main() *)

Responses ==
    {[ok |-> FALSE, lines |-> <<>>]}
    \cup {[ok |-> TRUE, lines |-> body] : body \in BoundedSeq(RawLines, MaxLines)}

\* The report file before the run: absent, or the report of an earlier run.
FilesBefore == {[kind |-> "absent", doc |-> NoDocument],
                [kind |-> "previous", doc |-> NoDocument]}

Idle ==
    /\ full_df = <<>>
    /\ handler = "none"
    /\ available_tickers = <<>>
    /\ processed_dfs = <<>>
    /\ report_df = <<>>
    /\ plots = <<>>
    /\ html_template = NoDocument
    /\ i = 0
    /\ exc = "None"
    /\ stdout = <<>>

IdleMA ==
    /\ df = <<>>
    /\ window = 0
    /\ df_sorted = <<>>
    /\ ma_pc = "idle"

Init ==
    /\ response \in Responses
    /\ file \in FilesBefore
    /\ pc = "start"
    /\ Idle
    /\ IdleMA

\* main, step 1: full_df = read_nasdaq_data(DATA_URL); return if it is empty.
ReadData ==
    /\ pc = "start"
    /\ LET r == read_nasdaq_data(response)
       IN  /\ full_df' = r.df
           /\ handler' = r.handler
           /\ IF r.df = <<>>
              THEN /\ stdout' = stdout \o r.out
                                \o <<"Halting execution due to data reading failure.">>
                   /\ pc' = "halted"
              ELSE /\ stdout' = stdout \o r.out
                   /\ pc' = "select"
    /\ UNCHANGED <<response, file, available_tickers, processed_dfs, report_df,
                   plots, html_template, i, exc>>
    /\ UNCHANGED ma_vars

\* main, step 2: available_tickers; return if there is none.
SelectTickers ==
    /\ pc = "select"
    /\ available_tickers' = AvailableTickers(full_df)
    /\ IF AvailableTickers(full_df) = <<>>
       THEN /\ stdout' = stdout
                         \o <<"None of the selected tickers were found in the dataset.">>
            /\ pc' = "halted"
            /\ i' = i
       ELSE /\ stdout' = stdout \o <<"Found data for">>
            /\ pc' = "process"
            /\ i' = 1
    /\ UNCHANGED <<response, file, full_df, handler, processed_dfs, report_df,
                   plots, html_template, exc>>
    /\ UNCHANGED ma_vars

\* main, step 2, one iteration of `for ticker in available_tickers`.
ProcessTicker ==
    /\ pc = "process"
    /\ i <= Len(available_tickers)
    /\ LET ticker_df == filter_by_ticker(full_df, available_tickers[i])
       IN  \E order \in sort_values(ticker_df) :
               processed_dfs' =
                   Append(processed_dfs,
                          calculate_moving_average(ticker_df, MOVING_AVERAGE_WINDOW, order))
    /\ i' = i + 1
    /\ UNCHANGED <<response, file, pc, full_df, handler, available_tickers, report_df,
                   plots, html_template, exc, stdout>>
    /\ UNCHANGED ma_vars

\* main, step 3: report_df = pd.concat(processed_dfs), then the call of
\* generate_html_report.  pd.concat raises ValueError on an empty list.
Concat ==
    /\ pc = "process"
    /\ i > Len(available_tickers)
    /\ IF processed_dfs = <<>>
       THEN /\ exc' = "ValueError"
            /\ pc' = "crashed"
            /\ UNCHANGED <<report_df, i>>
       ELSE /\ report_df' = concat(processed_dfs)
            /\ pc' = "plots"
            /\ i' = 1
            /\ exc' = exc
    /\ UNCHANGED <<response, file, full_df, handler, available_tickers, processed_dfs,
                   plots, html_template, stdout>>
    /\ UNCHANGED ma_vars

\* generate_html_report, one iteration of `for ticker in tickers`.
RenderPlot ==
    /\ pc = "plots"
    /\ i <= Len(available_tickers)
    /\ LET ticker == available_tickers[i]
           ticker_df == SelectSeq(report_df, LAMBDA row : row.ticker = ticker)
       IN  plots' = IF ticker_df = <<>> THEN plots ELSE DictSet(plots, ticker, ticker_df)
    /\ i' = i + 1
    /\ UNCHANGED <<response, file, pc, full_df, handler, available_tickers,
                   processed_dfs, report_df, html_template, exc, stdout>>
    /\ UNCHANGED ma_vars

\* The plotting library raises while a chart is drawn or saved.
RenderPlotFails ==
    /\ pc = "plots"
    /\ i <= Len(available_tickers)
    /\ exc' = "RenderError"
    /\ pc' = "crashed"
    /\ UNCHANGED <<response, file, full_df, handler, available_tickers, processed_dfs,
                   report_df, plots, html_template, i, stdout>>
    /\ UNCHANGED ma_vars

\* generate_html_report: table_html, plot_html_sections and html_template.
BuildHtml ==
    /\ pc = "plots"
    /\ i > Len(available_tickers)
    /\ html_template' =
           HtmlTemplate(report_df, available_tickers, MOVING_AVERAGE_WINDOW, plots)
    /\ pc' = "open"
    /\ UNCHANGED <<response, file, full_df, handler, available_tickers, processed_dfs,
                   report_df, plots, i, exc, stdout>>
    /\ UNCHANGED ma_vars

\* report_df.to_html raises.
BuildHtmlFails ==
    /\ pc = "plots"
    /\ i > Len(available_tickers)
    /\ exc' = "RenderError"
    /\ pc' = "crashed"
    /\ UNCHANGED <<response, file, full_df, handler, available_tickers, processed_dfs,
                   report_df, plots, html_template, i, stdout>>
    /\ UNCHANGED ma_vars

\* open(REPORT_FILENAME, "w"): creates the file or truncates it.
OpenFile ==
    /\ pc = "open"
    /\ file' = [kind |-> "empty", doc |-> NoDocument]
    /\ pc' = "write"
    /\ UNCHANGED <<response, full_df, handler, available_tickers, processed_dfs,
                   report_df, plots, html_template, i, exc, stdout>>
    /\ UNCHANGED ma_vars

\* open raises (the path is not writable): the file is left as it was.
OpenFileFails ==
    /\ pc = "open"
    /\ exc' = "OSError"
    /\ pc' = "crashed"
    /\ UNCHANGED <<response, file, full_df, handler, available_tickers, processed_dfs,
                   report_df, plots, html_template, i, stdout>>
    /\ UNCHANGED ma_vars

\* f.write(html_template), the close of the with block, and the last prints.
WriteFile ==
    /\ pc = "write"
    /\ file' = [kind |-> "document", doc |-> html_template]
    /\ stdout' = stdout \o <<"Successfully generated HTML report", "Analysis Complete">>
    /\ pc' = "done"
    /\ UNCHANGED <<response, full_df, handler, available_tickers, processed_dfs,
                   report_df, plots, html_template, i, exc>>
    /\ UNCHANGED ma_vars

\* The write or the flush at close raises (the disk is full): what was
\* flushed so far stays in the file.
WriteFileFails ==
    /\ pc = "write"
    /\ \E kind \in {"empty", "partial"} : file' = [kind |-> kind, doc |-> NoDocument]
    /\ exc' = "OSError"
    /\ pc' = "crashed"
    /\ UNCHANGED <<response, full_df, handler, available_tickers, processed_dfs,
                   report_df, plots, html_template, i, stdout>>
    /\ UNCHANGED ma_vars

Next ==
    \/ ReadData
    \/ SelectTickers
    \/ ProcessTicker
    \/ Concat
    \/ RenderPlot
    \/ RenderPlotFails
    \/ BuildHtml
    \/ BuildHtmlFails
    \/ OpenFile
    \/ OpenFileFails
    \/ WriteFile
    \/ WriteFileFails

Spec == Init /\ [][Next]_vars

----------------------------------------------------------------------------
(* calculate_moving_average on bounded inputs *)

CloseValues == {10, 20, 40}
DateValues == {570, 571}

Row(k, date, close) ==
    [idx |-> k - 1, ticker |-> "AAPL", per |-> "1", date |-> date, open |-> close,
     high |-> close, low |-> close, close |-> close, vol |-> 100]

Frames ==
    UNION {{[k \in 1..n |-> Row(k, cells[k][1], cells[k][2])]
            : cells \in [1..n -> DateValues \X CloseValues]} : n \in 0..MaxLen}

\* 35 one-minute rows with closing prices 100, 101, ..., 134.
Linear35 == [k \in 1..35 |-> Row(k, 569 + k, 99 + k)]

InitMA ==
    /\ df \in Frames \cup {Linear35}
    /\ window \in (0..MaxWindow) \cup {MOVING_AVERAGE_WINDOW}
    /\ df_sorted = <<>>
    /\ ma_pc = "call"
    /\ response = [ok |-> FALSE, lines |-> <<>>]
    /\ file = [kind |-> "absent", doc |-> NoDocument]
    /\ pc = "idle"
    /\ Idle

\* Lines 93-94: a window that is not positive raises ValueError.
RejectWindow ==
    /\ ma_pc = "call"
    /\ window <= 0
    /\ ma_pc' = "ValueError"
    /\ UNCHANGED <<df, window, df_sorted>>
    /\ UNCHANGED pipeline_vars

\* Lines 96-100: sort, add the MA column, return.
CalculateMovingAverage ==
    /\ ma_pc = "call"
    /\ window > 0
    /\ \E order \in sort_values(df) :
           df_sorted' = calculate_moving_average(df, window, order)
    /\ ma_pc' = "returned"
    /\ UNCHANGED <<df, window>>
    /\ UNCHANGED pipeline_vars

NextMA ==
    \/ RejectWindow
    \/ CalculateMovingAverage

SpecMA == InitMA /\ [][NextMA]_vars

----------------------------------------------------------------------------
(* Properties of calculate_moving_average, checked under SpecMA *)

Defined(frame) == {k \in DOMAIN frame : ~frame[k].MA.isnan}

RECURSIVE SumCloses(_, _, _)
SumCloses(frame, from, to) ==
    IF from > to THEN 0 ELSE frame[to].close + SumCloses(frame, from, to - 1)

\* C1: for a positive window w and a frame of n rows, the returned frame has
\* n rows, MA_w is defined at 0-based position p exactly when p >= w - 1, so
\* max(n - w + 1, 0) values are defined, and no error is raised when w > n.
C1_DefinedFromWindow ==
    /\ ma_pc = "ValueError" => window <= 0
    /\ ma_pc = "returned" =>
         /\ Len(df_sorted) = Len(df)
         /\ \A k \in DOMAIN df_sorted :
                (~df_sorted[k].MA.isnan) <=> (k - 1 >= window - 1)
         /\ Cardinality(Defined(df_sorted)) = Max(Len(df) - window + 1, 0)

C1_Witness ==
    /\ ma_pc = "returned"
    /\ Len(df) = 3
    /\ window = 2
    /\ Defined(df_sorted) = {2, 3}

C1_WitnessWindowExceedsLength ==
    /\ ma_pc = "returned"
    /\ Len(df) > 0
    /\ window > Len(df)
    /\ Defined(df_sorted) = {}

\* C2: the returned frame is the input sorted ascending by timestamp, and each
\* defined MA_w value at position k is the arithmetic mean of the closes at
\* positions k-w+1..k of that frame; with w = 1 it is the close itself, and
\* for closes 100..134 with w = 30 the last value is 119.5 (= 239/2).
C2_WindowMean ==
    ma_pc = "returned" =>
        /\ Len(df_sorted) = Len(df)
        /\ {df_sorted[k].idx : k \in DOMAIN df_sorted} = {df[k].idx : k \in DOMAIN df}
        /\ \A k \in DOMAIN df_sorted :
               df_sorted[k] = WithMA(df[df_sorted[k].idx + 1], df_sorted[k].MA)
        /\ \A k \in DOMAIN df_sorted :
               k > 1 => df_sorted[k - 1].date <= df_sorted[k].date
        /\ \A k \in Defined(df_sorted) :
               /\ k >= window
               /\ df_sorted[k].MA.den > 0
               /\ df_sorted[k].MA.num * window =
                      SumCloses(df_sorted, k - window + 1, k) * df_sorted[k].MA.den
        /\ window = 1 =>
               \A k \in DOMAIN df_sorted :
                   /\ ~df_sorted[k].MA.isnan
                   /\ df_sorted[k].MA.num = df_sorted[k].close * df_sorted[k].MA.den
        /\ (df = Linear35 /\ window = 30) =>
               /\ Cardinality(Defined(df_sorted)) = 6
               /\ 2 * df_sorted[35].MA.num = 239 * df_sorted[35].MA.den

C2_Witness ==
    /\ ma_pc = "returned"
    /\ window = 2
    /\ Len(df) = 3
    /\ df[1].date > df[2].date
    /\ df_sorted[2].close # df_sorted[3].close
    /\ ~df_sorted[3].MA.isnan

C2_WitnessScenario ==
    /\ ma_pc = "returned"
    /\ df = Linear35
    /\ window = 30

\* C10: the sort is stable on timestamp: two rows with equal timestamps keep
\* in the output the relative order they had in the input.
C10_StableSort ==
    ma_pc = "returned" =>
        \A j, k \in DOMAIN df_sorted :
            (j < k /\ df_sorted[j].date = df_sorted[k].date)
                => df_sorted[j].idx < df_sorted[k].idx

----------------------------------------------------------------------------
(* Properties of a run of main, checked under Spec *)

Idx(frame) == [k \in DOMAIN frame |-> frame[k].idx]

HasFieldCountMismatch ==
    \E k \in DOMAIN response.lines : Len(response.lines[k]) # Len(COLUMN_NAMES)

HasBadTimestamp ==
    \E k \in DOMAIN response.lines :
        /\ Len(response.lines[k]) >= 3
        /\ response.lines[k][3] \notin na_values
        /\ response.lines[k][3] \notin DOMAIN strptime

Requested(t) == \E k \in DOMAIN TICKERS_TO_ANALYZE : TICKERS_TO_ANALYZE[k] = t

Position(t) == CHOOSE k \in DOMAIN TICKERS_TO_ANALYZE : TICKERS_TO_ANALYZE[k] = t

Found ==
    SelectSeq(TICKERS_TO_ANALYZE,
              LAMBDA t : \E k \in DOMAIN full_df : full_df[k].ticker = t)

NoReport ==
    /\ file \in FilesBefore
    /\ html_template = NoDocument
    /\ pc \notin {"plots", "open", "write", "done"}

\* C3: the cleaning step returns exactly the input rows whose five numeric
\* fields all coerce, in input order; no row is excluded for another reason.
C3_OnlyNumericFailuresDropped ==
    (pc # "start" /\ response.ok /\ handler = "none") =>
        Idx(full_df) =
            Idx(SelectSeq([k \in DOMAIN response.lines |->
                              Convert(read_csv(response.lines)[k])], NumericOk))

C5_FieldCountMismatchIsFatal ==
    (pc # "start" /\ response.ok /\ HasFieldCountMismatch) =>
        /\ handler = "Exception"
        /\ full_df = <<>>
        /\ NoReport

\* C6: when the fetch fails or returns no data, or none of the requested
\* tickers is in the cleaned data, the run never reaches report assembly and
\* the output file is never opened or written.
C6_NoReportWithoutData ==
    (pc # "start"
       /\ (~response.ok \/ full_df = <<>>
             \/ \A k \in DOMAIN full_df : ~Requested(full_df[k].ticker))) =>
        /\ NoReport
        /\ pc \in {"select", "halted"}
        /\ report_df = <<>>
        /\ processed_dfs = <<>>

C6_Witness ==
    /\ pc = "halted"
    /\ response.ok
    /\ full_df # <<>>
    /\ file \in FilesBefore

C6_WitnessFetchFails ==
    /\ pc = "halted"
    /\ ~response.ok

\* C7: when some but not all requested tickers are in the cleaned data the run
\* does not abort, and the report has exactly one chart section per found
\* ticker, in request order, and none for an absent ticker.
C7_PartialMatchReported ==
    (pc # "start" /\ Found # <<>> /\ Found # TICKERS_TO_ANALYZE) =>
        /\ pc # "halted"
        /\ pc # "select" =>
              /\ available_tickers = Found
              /\ \E k \in DOMAIN stdout : stdout[k] = "Found data for"
        /\ pc \in {"open", "write", "done"} =>
              /\ [k \in DOMAIN html_template.sections |->
                     html_template.sections[k].ticker] = Found
              /\ \A k \in DOMAIN html_template.sections :
                     LET section == html_template.sections[k]
                     IN  /\ section.img # <<>>
                         /\ \A r \in DOMAIN section.img :
                                section.img[r].ticker = section.ticker
        /\ pc = "done" => file = [kind |-> "document", doc |-> html_template]

C7_Witness ==
    /\ pc = "done"
    /\ Found = <<"AAPL", "MSFT">>
    /\ Len(file.doc.sections) = 2
    /\ \E k \in DOMAIN full_df : full_df[k].ticker = "ZZZZ"

\* C8: the combined table is the concatenation, in request order, of the
\* moving-average frames of the included tickers: as many rows as those
\* frames have together, the rows of an earlier requested ticker first.
C8_TableInRequestOrder ==
    pc = "done" =>
        LET table == file.doc.table
        IN  /\ Len(table) =
                   Cardinality({k \in DOMAIN full_df : Requested(full_df[k].ticker)})
            /\ \A j, k \in DOMAIN table :
                   j < k => Position(table[j].ticker) <= Position(table[k].ticker)
            /\ \A n \in DOMAIN available_tickers :
                   SelectSeq(table, LAMBDA row : row.ticker = available_tickers[n])
                       = processed_dfs[n]
            /\ {table[k].idx : k \in DOMAIN table} =
                   {full_df[k].idx :
                       k \in {n \in DOMAIN full_df : Requested(full_df[n].ticker)}}

C8_Witness ==
    /\ pc = "done"
    /\ Len(file.doc.table) = 3
    /\ \E j, k \in DOMAIN file.doc.table :
           /\ j < k
           /\ file.doc.table[j].ticker = "AAPL"
           /\ file.doc.table[k].ticker = "MSFT"
           /\ file.doc.table[j].idx > file.doc.table[k].idx

\* C9: the report file is written atomically: in every reachable state the
\* output location holds the complete new document or is as it was before the
\* run, also after a failure during generate_html_report.
C9_AtomicWrite ==
    \/ file \in FilesBefore
    \/ (file.kind = "document" /\ file.doc = html_template /\ file.doc # NoDocument)

====
